---- MODULE Spec2Model ----
(***************************************************************************)
(* Beam-search utilities of graph_augmented_sum/model/beam_search.py.      *)
(*                                                                         *)
(* Log-probabilities are integers (the arithmetic of the code on them is   *)
(* addition, subtraction and a comparison of quotients, all exact on the   *)
(* values used here).  Tensors are records with a rank and nested          *)
(* sequences; Python tuples are records holding their items.  An exception *)
(* is a record naming it.                                                  *)
(***************************************************************************)
EXTENDS Integers, Sequences, FiniteSets, TLC

VARIABLES beam, finished, beam_size, err, last, result, arg, ret

vars == <<beam, finished, beam_size, err, last, result, arg, ret>>

(***************************************************************************)
(* Bounds and input sets                                                   *)
(***************************************************************************)
MaxLen == 5
MaxLayers == 3
MaxHyps == 2

Start == 0
End == 2
Tokens == {Start, 1, End}
BeamSizes == {1, 2}
LogProbs == {-1}
Diverses == {1}
StateVals == {0, 10}

Sentinel == -1000000000

(***************************************************************************)
(* Python values                                                           *)
(***************************************************************************)
None == [kind |-> "none"]
Raise(e) == [kind |-> "error", exc |-> e]
IsErr(x) == x.kind = "error"
Tuple(s) == [kind |-> "tuple", items |-> s]
Tensor(r, d) == [kind |-> "tensor", rank |-> r, data |-> d]

\* the exception of the first failing element of a sequence of results
FirstErr(s) == s[CHOOSE i \in 1..Len(s) : IsErr(s[i]) /\ \A j \in 1..(i-1) : ~IsErr(s[j])]
AnyErr(s) == \E i \in 1..Len(s) : IsErr(s[i])

\* len(x)
PyLen(x) == IF x.kind = "tuple" THEN Len(x.items) ELSE Len(x.data)

\* x[i], i counted from 0
Item(x, i) ==
    IF x.kind = "tuple"
    THEN IF i < Len(x.items) THEN x.items[i+1] ELSE Raise("IndexError")
    ELSE IF x.rank >= 1 /\ i < Len(x.data)
         THEN Tensor(x.rank - 1, x.data[i+1])
         ELSE Raise("IndexError")

\* x[:, i, :]
SliceMid(x, i) ==
    IF IsErr(x) THEN x
    ELSE IF x.kind = "tuple" THEN Raise("TypeError")
    ELSE IF x.rank < 3 THEN Raise("IndexError")
    ELSE IF \E l \in 1..Len(x.data) : i >= Len(x.data[l]) THEN Raise("IndexError")
    ELSE Tensor(x.rank - 1, [l \in 1..Len(x.data) |-> x.data[l][i+1]])

\* x[i, :]
SliceRow(x, i) ==
    IF IsErr(x) THEN x
    ELSE IF x.kind = "tuple" THEN Raise("TypeError")
    ELSE IF x.rank < 2 THEN Raise("IndexError")
    ELSE IF i >= Len(x.data) THEN Raise("IndexError")
    ELSE Tensor(x.rank - 1, x.data[i+1])

\* torch.stack(ts, dim) for dim 0 and dim 1, ts a non-empty sequence of tensors
Stack(ts, dim) ==
    IF AnyErr(ts) THEN FirstErr(ts)
    ELSE IF \E i \in 1..Len(ts) : ts[i].kind # "tensor" THEN Raise("TypeError")
    ELSE IF dim = 0
    THEN Tensor(ts[1].rank + 1, [i \in 1..Len(ts) |-> ts[i].data])
    ELSE IF ts[1].rank < 1 THEN Raise("IndexError")
    ELSE Tensor(ts[1].rank + 1,
                [l \in 1..Len(ts[1].data) |-> [i \in 1..Len(ts) |-> ts[i].data[l]]])

\* elementwise sum of two rank-1 tensors
TensorAdd(a, b) == Tensor(a.rank, [d \in 1..Len(a.data) |-> a.data[d] + b.data[d]])

(***************************************************************************)
(* Comparison of quotients x/w < y/v for positive w, v, as x*v < y*w, the  *)
(* products kept in two digits of base 10^5                                *)
(***************************************************************************)
Base == 10^5

Prod(x, w) ==
    LET hi == x \div Base
        lo == x % Base
    IN  <<hi * w + ((lo * w) \div Base), (lo * w) % Base>>

PairLess(p, q) == p[1] < q[1] \/ (p[1] = q[1] /\ p[2] < q[2])

QuotLess(x, w, y, v) == PairLess(Prod(x, v), Prod(y, w))

\* length_wu(cur_len, alpha=0.9) = ((5 + cur_len) / 6.0) ** 0.9, in units of 10^-4
length_wu(cur_len) ==
    CASE cur_len = 1 -> 10000
      [] cur_len = 2 -> 11488
      [] cur_len = 3 -> 12955
      [] cur_len = 4 -> 14404
      [] cur_len = 5 -> 15837
      [] cur_len = 6 -> 17255
      [] cur_len = 7 -> 18661
      [] cur_len = 8 -> 20055
      [] OTHER -> 21438

\* key of the beam pruning of _clean_beam: h.logprob / length_wu(len(h.sequence), alpha=0.9)
WuLess(a, b) ==
    QuotLess(a.logprob, length_wu(Len(a.sequence)), b.logprob, length_wu(Len(b.sequence)))

\* key h.logprob / len(h.sequence)
MeanLess(a, b) ==
    QuotLess(a.logprob, Len(a.sequence), b.logprob, Len(b.sequence))

\* the two sort keys of the module
KeyLess(key, a, b) == IF key = "wu" THEN WuLess(a, b) ELSE MeanLess(a, b)

\* sorted(s, reverse=True, key=...): descending, equal keys keep their order
SortDesc(s, key) ==
    LET n == Len(s)
        rank == [i \in 1..n |-> 1 + Cardinality({j \in 1..n :
                        KeyLess(key, s[i], s[j]) \/ (~KeyLess(key, s[j], s[i]) /\ j < i)})]
    IN  [p \in 1..n |-> s[CHOOSE i \in 1..n : rank[i] = p]]

(***************************************************************************)
(* _Hypothesis                                                             *)
(***************************************************************************)
Hypothesis(sequence, logprob, hists, attns, coverage) ==
    [sequence |-> sequence, logprob |-> logprob, hists |-> hists,
     attns |-> attns, coverage |-> coverage]

\* extend_k with the rank of a candidate counted from 1
extend_k_rank_from_one(self, topk, logprobs, hists, attn, diverse) ==
    [j \in 1..(IF Len(topk) < Len(logprobs) THEN Len(topk) ELSE Len(logprobs)) |->
        Hypothesis(Append(self.sequence, topk[j]), self.logprob + logprobs[j] - diverse * j,
                   hists,
                   IF attn.kind = "none" THEN <<>> ELSE Append(self.attns, attn),
                   IF attn.kind = "none" THEN self.coverage
                   ELSE IF self.coverage.kind = "none" THEN attn
                   ELSE TensorAdd(self.coverage, attn))]

\* zip(topk, logprobs) stops at the shorter of the two
ZipLen(topk, logprobs) == IF Len(topk) < Len(logprobs) THEN Len(topk) ELSE Len(logprobs)

extend_k(self, topk, logprobs, hists, attn, diverse) ==
    LET attns == IF attn.kind = "none" THEN <<>> ELSE Append(self.attns, attn)
        coverage == IF attn.kind = "none" THEN self.coverage
                    ELSE IF self.coverage.kind = "none" THEN attn
                    ELSE TensorAdd(self.coverage, attn)
    IN  [j \in 1..ZipLen(topk, logprobs) |->
            Hypothesis(Append(self.sequence, topk[j]),
                       self.logprob + logprobs[j] - diverse * (j - 1),
                       hists, attns, coverage)]

\* _Hypothesis.__lt__
HypLt(self, other) == MeanLess(other, self)

init_beam(start, hists) == <<Hypothesis(<<start>>, 0, hists, <<>>, None)>>

create_beam(tok, lp, hists) ==
    [i \in 1..Len(tok) |-> Hypothesis(<<tok[i]>>, lp[i], hists, <<>>, None)]


(***************************************************************************)
(* pack_beam and _unpack_topk                                              *)
(***************************************************************************)
LastTok(h) == h.sequence[Len(h.sequence)]

\* returns the pair (token, states), or the exception raised
pack_beam(hyps, use_t5) ==
    LET token == [i \in 1..Len(hyps) |-> LastTok(hyps[i])]
        part(i, d) == Stack([n \in 1..Len(hyps) |-> Item(hyps[n].hists, i)], d)
        states == IF use_t5
                  THEN Stack([n \in 1..Len(hyps) |-> hyps[n].hists], 1)
                  ELSE IF AnyErr(<<part(0, 1), part(1, 1), part(2, 0)>>)
                       THEN FirstErr(<<part(0, 1), part(1, 1), part(2, 0)>>)
                       ELSE Tuple(<<Tuple(<<part(0, 1), part(1, 1)>>), part(2, 0)>>)
    IN  IF IsErr(states) THEN states ELSE Tuple(<<token, states>>)

\* returns the tuple of 3 (attn is None) or 4 lists, or the exception raised
_unpack_topk(topk, lp, hists, attn) ==
    LET nbeam == Len(topk)
        triple(i) == <<SliceMid(Item(hists, 0), i), SliceMid(Item(hists, 1), i),
                       SliceRow(Item(hists, 2), i)>>
        k_hists == IF PyLen(hists) = 3
                   THEN [n \in 1..nbeam |->
                            IF AnyErr(triple(n-1)) THEN FirstErr(triple(n-1))
                            ELSE Tuple(triple(n-1))]
                   ELSE [n \in 1..nbeam |-> SliceMid(hists, n-1)]
        attns == [n \in 1..nbeam |-> Item(attn, n-1)]
    IN  IF AnyErr(k_hists) THEN FirstErr(k_hists)
        ELSE IF attn.kind = "none" THEN Tuple(<<topk, lp, k_hists>>)
        ELSE IF AnyErr(attns) THEN FirstErr(attns)
        ELSE Tuple(<<topk, lp, k_hists, attns>>)

(***************************************************************************)
(* _has_repeat_tri, _clean_beam, _clean_beam_cnn                           *)
(***************************************************************************)
\* _has_repeat_tri with the last trigram left out (range(len(grams) - 3))
has_repeat_tri_short_range(grams) ==
    LET tri_grams == [i \in 1..(Len(grams) - 3) |-> SubSeq(grams, i, i + 2)]
        keys == {tri_grams[i] : i \in 1..Len(tri_grams)}
        cnt == [g \in keys |-> Cardinality({i \in 1..Len(tri_grams) : tri_grams[i] = g})]
    IN  ~(\A g \in keys : cnt[g] <= 1)

\* tri_grams is the list of the slices grams[i:i+3], cnt their Counter
_has_repeat_tri(grams) ==
    LET tri_grams == [i \in 1..(Len(grams) - 2) |-> SubSeq(grams, i, i + 2)]
        keys == {tri_grams[i] : i \in 1..Len(tri_grams)}
        cnt == [g \in keys |-> Cardinality({i \in 1..Len(tri_grams) : tri_grams[i] = g})]
    IN  ~(\A g \in keys : cnt[g] <= 1)

Front(s) == SubSeq(s, 1, Len(s) - 1)

LoopStart == [new_beam |-> <<>>, appended |-> <<>>, demoted |-> 0]

\* the for loop of _clean_beam over the sorted candidates, from candidate i on
RECURSIVE CleanLoop(_, _, _, _, _, _)
CleanLoop(pool, i, end_tok, size, remove_tri, st) ==
    IF i > Len(pool) THEN st
    ELSE LET rep == remove_tri /\ _has_repeat_tri(pool[i].sequence)
             h == IF rep THEN [pool[i] EXCEPT !.logprob = Sentinel] ELSE pool[i]
             st1 == [st EXCEPT !.demoted = IF rep THEN @ + 1 ELSE @]
             st2 == IF LastTok(h) = end_tok
                    THEN [st1 EXCEPT !.appended = Append(@,
                            Hypothesis(Front(h.sequence), h.logprob, h.hists,
                                       h.attns, h.coverage))]
                    ELSE [st1 EXCEPT !.new_beam = Append(@, h)]
         IN  IF Len(st2.new_beam) = size THEN st2
             ELSE CleanLoop(pool, i+1, end_tok, size, remove_tri, st2)

\* CleanLoopCnn without the continue: a repeating candidate is demoted, not skipped
RECURSIVE CleanLoopCnnNoSkip(_, _, _, _, _, _)
CleanLoopCnnNoSkip(pool, i, end_tok, size, remove_tri, st) ==
    IF i > Len(pool) THEN st
    ELSE LET rep == remove_tri /\ _has_repeat_tri(pool[i].sequence)
             h == IF rep THEN [pool[i] EXCEPT !.logprob = Sentinel] ELSE pool[i]
             st1 == [st EXCEPT !.demoted = IF rep THEN @ + 1 ELSE @]
             st2 == IF LastTok(h) = end_tok
                    THEN [st1 EXCEPT !.appended = Append(@,
                            Hypothesis(Front(h.sequence), h.logprob, h.hists,
                                       h.attns, None))]
                    ELSE [st1 EXCEPT !.new_beam = Append(@, h)]
         IN  IF Len(st2.new_beam) = size THEN st2
             ELSE CleanLoopCnnNoSkip(pool, i+1, end_tok, size, remove_tri, st2)

\* the for loop of _clean_beam_cnn
RECURSIVE CleanLoopCnn(_, _, _, _, _, _)
CleanLoopCnn(pool, i, end_tok, size, remove_tri, st) ==
    IF i > Len(pool) THEN st
    ELSE LET rep == remove_tri /\ _has_repeat_tri(pool[i].sequence)
             h == pool[i]
             st2 == IF LastTok(h) = end_tok
                    THEN [st EXCEPT !.appended = Append(@,
                            Hypothesis(Front(h.sequence), h.logprob, h.hists,
                                       h.attns, None))]
                    ELSE [st EXCEPT !.new_beam = Append(@, h)]
         IN  IF rep
             THEN CleanLoopCnn(pool, i+1, end_tok, size, remove_tri,
                               [st EXCEPT !.demoted = @ + 1])
             ELSE IF Len(st2.new_beam) = size THEN st2
             ELSE CleanLoopCnn(pool, i+1, end_tok, size, remove_tri, st2)

\* EnsureSize without the padding loop
EnsureSizeNoPad(fin, st, size) ==
    [err |-> "none", finished |-> SortDesc(fin \o st.appended, "mean"),
     beam |-> st.new_beam, accepted |-> Len(st.new_beam), demoted |-> st.demoted]

\* EnsureSize sorting the finished list by the key that pruned the beam
EnsureSizeWuSort(fin, st, size) ==
    IF Len(st.new_beam) < size /\ Len(st.new_beam) = 0
    THEN [err |-> "IndexError", finished |-> fin \o st.appended, beam |-> <<>>,
          accepted |-> 0, demoted |-> st.demoted]
    ELSE [err |-> "none",
          finished |-> SortDesc(fin \o st.appended, "wu"),
          beam |-> [n \in 1..(IF Len(st.new_beam) < size THEN size ELSE Len(st.new_beam)) |->
                        IF n <= Len(st.new_beam) THEN st.new_beam[n] ELSE st.new_beam[1]],
          accepted |-> Len(st.new_beam), demoted |-> st.demoted]

\* the else branch of the loop ("ensure beam size") and the final sort.
\* finished.append has grown the caller's list when new_beam[0] raises.
EnsureSize(fin, st, size) ==
    IF Len(st.new_beam) < size /\ Len(st.new_beam) = 0
    THEN [err |-> "IndexError", finished |-> fin \o st.appended, beam |-> <<>>,
          accepted |-> 0, demoted |-> st.demoted]
    ELSE [err |-> "none",
          finished |-> SortDesc(fin \o st.appended, "mean"),
          beam |-> [n \in 1..(IF Len(st.new_beam) < size THEN size ELSE Len(st.new_beam)) |->
                        IF n <= Len(st.new_beam) THEN st.new_beam[n] ELSE st.new_beam[1]],
          accepted |-> Len(st.new_beam), demoted |-> st.demoted]

_clean_beam(fin, pool, end_tok, size, remove_tri) ==
    EnsureSize(fin,
               CleanLoop(SortDesc(pool, "wu"), 1, end_tok, size, remove_tri, LoopStart),
               size)

_clean_beam_cnn(fin, pool, end_tok, size, remove_tri) ==
    EnsureSize(fin,
               CleanLoopCnn(SortDesc(pool, "mean"), 1, end_tok, size, remove_tri, LoopStart),
               size)


(***************************************************************************)
(* next_search_beam, next_search_beam_cnn, best_sequence                   *)
(***************************************************************************)
RECURSIVE Concat(_)
Concat(ss) == IF ss = <<>> THEN <<>> ELSE Head(ss) \o Concat(Tail(ss))

Failed(e, fin) ==
    [err |-> e, finished |-> fin, beam |-> <<>>, accepted |-> -1, demoted |-> 0]

\* lines 76-80 (and 89-93): the candidate pool, or the exception raised.
\* The call site unpacks the result of _unpack_topk into four names.
Candidates(bm, topk, lp, hists, attn, diverse) ==
    LET u == _unpack_topk(topk, lp, hists, attn)
    IN  IF IsErr(u) THEN u
        ELSE IF Len(u.items) # 4 THEN Raise("ValueError")
        ELSE IF Len(bm) > Len(u.items[1]) \/ Len(bm) > Len(u.items[2])
             THEN Raise("IndexError")
        ELSE Tuple(Concat([i \in 1..Len(bm) |->
                extend_k(bm[i], u.items[1][i], u.items[2][i], u.items[3][i],
                         u.items[4][i], diverse)]))

next_search_beam(bm, size, fin, end, topk, lp, hists, attn, diverse) ==
    LET hyps == Candidates(bm, topk, lp, hists, attn, diverse)
    IN  IF IsErr(hyps) THEN Failed(hyps.exc, fin)
        ELSE _clean_beam(fin, hyps.items, end, size, TRUE)

next_search_beam_cnn(bm, size, fin, end, topk, lp, hists, attn, diverse) ==
    LET hyps == Candidates(bm, topk, lp, hists, attn, diverse)
    IN  IF IsErr(hyps) THEN Failed(hyps.exc, fin)
        ELSE _clean_beam_cnn(fin, hyps.items, end, size, TRUE)

\* bm is None or the list of hypotheses
best_sequence(fin, bm) ==
    LET pick == IF bm.kind = "none"
                THEN IF fin = <<>> THEN Raise("IndexError") ELSE Tuple(<<fin[1]>>)
                ELSE IF bm.items = <<>> THEN Raise("IndexError")
                ELSE IF fin # <<>> /\ HypLt(bm.items[1], fin[1])
                     THEN Tuple(<<fin[1]>>)
                     ELSE Tuple(<<bm.items[1]>>)
    IN  IF IsErr(pick) THEN pick
        ELSE LET best_beam == pick.items[1]
                 best_seq == Tail(best_beam.sequence)
             IN  IF best_beam.attns # <<>>
                 THEN [kind |-> "tuple", seq |-> best_seq, attns |-> best_beam.attns]
                 ELSE [kind |-> "list", seq |-> best_seq]

(***************************************************************************)
(* One decode: the caller initialises a beam, calls a stepping function    *)
(* with the output of the step function, and ends with best_sequence.      *)
(***************************************************************************)
\* decoder state of one hypothesis: composite (h, c, out), or one tensor of n layers
CompositeState == Tuple(<<Tensor(2, <<<<0>>>>), Tensor(2, <<<<0>>>>), Tensor(1, <<0>>)>>)
SingleState(n) == Tensor(2, [l \in 1..n |-> <<0>>])
SeedStates == {CompositeState}

\* step-function output for r rows, in the convention of the state st
BatchState(st, r) ==
    IF st.kind = "tuple"
    THEN Tuple(<<Tensor(3, <<[i \in 1..r |-> <<0>>]>>), Tensor(3, <<[i \in 1..r |-> <<0>>]>>),
                 Tensor(2, [i \in 1..r |-> <<0>>])>>)
    ELSE Tensor(3, [l \in 1..Len(st.data) |-> [i \in 1..r |-> <<0>>]])

BatchAttn(r) == Tensor(2, [i \in 1..r |-> <<1>>])

\* top-k rows: k distinct tokens, log-probabilities in non-increasing order
\* the step function proposes the tokens of Vocab; a seed of create_beam is any token
Vocab == Tokens \ {Start}
TokRows(k, toks) == {t \in [1..k -> toks] : \A i, j \in 1..k : i # j => t[i] # t[j]}
LpRows(k) == {l \in [1..k -> LogProbs] : \A i, j \in 1..k : i < j => l[i] >= l[j]}
FillTok(k) == [i \in 1..k |-> 1]
FillLp(k) == [i \in 1..k |-> -1]

\* r rows of width k, of which the first n vary
TopkInputs(r, k, n) ==
    LET m == IF r < n THEN r ELSE n
    IN  {[i \in 1..r |-> IF i <= m THEN f[i] ELSE FillTok(k)] : f \in [1..m -> TokRows(k, Vocab)]}
LpInputs(r, k, n) ==
    LET m == IF r < n THEN r ELSE n
    IN  {[i \in 1..r |-> IF i <= m THEN f[i] ELSE FillLp(k)] : f \in [1..m -> LpRows(k)]}

Idle == [op |-> "new", attn |-> FALSE, rows |-> 0, hyps |-> 0, accepted |-> -1, demoted |-> 0]

Init ==
    /\ beam = <<>>
    /\ finished = <<>>
    /\ beam_size \in BeamSizes
    /\ err = "none"
    /\ last = Idle
    /\ result = None
    /\ arg = None
    /\ ret = None

InitBeam ==
    /\ last.op = "new"
    /\ \E st \in SeedStates : beam' = init_beam(Start, st)
    /\ last' = [Idle EXCEPT !.op = "init_beam"]
    /\ UNCHANGED <<finished, beam_size, err, result, arg, ret>>

\* the seeds are the top beam_size tokens of the first decoder output
CreateBeam ==
    /\ last.op = "new"
    /\ \E st \in SeedStates, tok \in TokRows(beam_size, Tokens), lp \in LpRows(beam_size) :
         beam' = create_beam(tok, lp, st)
    /\ last' = [Idle EXCEPT !.op = "create_beam"]
    /\ UNCHANGED <<finished, beam_size, err, result, arg, ret>>

\* One decode uses one stepping function, runs while the sequences are shorter
\* than MaxLen, and ends with the first call that raises or that was given a
\* batch of another size than the beam.
Stepping(op) ==
    /\ err = "none"
    /\ last.op \in {"init_beam", "create_beam", op}
    /\ last.rows = last.hyps
    /\ \A i \in 1..Len(beam) : Len(beam[i].sequence) < MaxLen

Returned(op, r, withAttn, rows) ==
    /\ err' = r.err
    /\ finished' = r.finished
    /\ beam' = IF r.err = "none" THEN r.beam ELSE beam
    /\ last' = [op |-> op, attn |-> withAttn, rows |-> rows, hyps |-> Len(beam),
                accepted |-> r.accepted, demoted |-> r.demoted]
    /\ UNCHANGED <<beam_size, result, arg, ret>>

\* a call without attention is tried on one input per shape
Varying(withAttn) == IF withAttn THEN Len(beam) ELSE 0

StepRows == {Len(beam) - 1, Len(beam), Len(beam) + 1}

\* the step function returns the top beam_size tokens of every row
NextSearchBeam ==
    /\ Stepping("next_search_beam")
    /\ \E r \in StepRows, diverse \in Diverses, withAttn \in BOOLEAN :
         \E topk \in TopkInputs(r, beam_size, Varying(withAttn)),
            lp \in LpInputs(r, beam_size, Varying(withAttn)) :
            \E out \in {next_search_beam(beam, beam_size, finished, End, topk, lp,
                                           BatchState(beam[1].hists, r),
                                           IF withAttn THEN BatchAttn(r) ELSE None, diverse)} :
                Returned("next_search_beam", out, withAttn, r)

NextSearchBeamCnn ==
    /\ Stepping("next_search_beam_cnn")
    /\ \E r \in StepRows, diverse \in Diverses, withAttn \in BOOLEAN :
         \E topk \in TopkInputs(r, beam_size, Varying(withAttn)),
            lp \in LpInputs(r, beam_size, Varying(withAttn)) :
            \E out \in {next_search_beam_cnn(beam, beam_size, finished, End, topk, lp,
                                               BatchState(beam[1].hists, r),
                                               IF withAttn THEN BatchAttn(r) ELSE None, diverse)} :
                Returned("next_search_beam_cnn", out, withAttn, r)

BestSequence ==
    /\ err = "none"
    /\ last.op \in {"init_beam", "create_beam", "next_search_beam", "next_search_beam_cnn"}
    /\ \E given \in BOOLEAN :
         LET r == best_sequence(finished, IF given THEN Tuple(beam) ELSE None)
         IN  /\ err' = IF IsErr(r) THEN r.exc ELSE "none"
             /\ result' = IF IsErr(r) THEN result ELSE r
             /\ last' = [Idle EXCEPT !.op = "best_sequence", !.attn = given]
    /\ UNCHANGED <<beam, finished, beam_size, arg, ret>>

Next == InitBeam \/ CreateBeam \/ NextSearchBeam \/ NextSearchBeamCnn \/ BestSequence

Spec == Init /\ [][Next]_vars


(***************************************************************************)
(* Properties of one decode                                                *)
(***************************************************************************)
StepOps == {"next_search_beam", "next_search_beam_cnn"}

\* a stepping function was called and returned
StepReturned == last.op \in StepOps /\ err = "none"

\* C1: best_sequence returns the sequence of finished[0], less its first token,
\* when beam is omitted or when finished is non-empty and finished[0] has a
\* strictly greater logprob/len than beam[0]; otherwise that of beam[0].
C1_BestSequencePrefersHigherScore ==
    (last.op = "best_sequence" /\ err = "none") =>
        result.seq = IF ~last.attn THEN Tail(finished[1].sequence)
                     ELSE IF finished # <<>> /\ MeanLess(beam[1], finished[1])
                          THEN Tail(finished[1].sequence)
                          ELSE Tail(beam[1].sequence)

\* C2: the beam returned by a call of next_search_beam or next_search_beam_cnn
\* holds exactly beam_size hypotheses.
C2_ReturnedBeamHasBeamSize == StepReturned => Len(beam) = beam_size

\* a step returned a beam it had to pad, and one that grew from a single seed
C2_Witness ==
    /\ StepReturned
    /\ last.accepted >= 1 /\ last.accepted < beam_size
    /\ last.hyps < beam_size

\* C3: a step that accepts fewer than beam_size candidates, 0 included, returns
\* the beam padded to beam_size with copies of its first entry and never raises.
C3_ShortBeamIsPaddedNeverRaises ==
    (last.op \in StepOps /\ last.accepted >= 0 /\ last.accepted < beam_size) =>
        /\ err = "none"
        /\ Len(beam) = beam_size
        /\ \A n \in (last.accepted + 1)..beam_size : beam[n] = beam[1]

\* C4: a stepping function given another number of rows than the beam has
\* hypotheses fails with an error.
C4_RowMismatchFails ==
    (last.op \in StepOps /\ last.rows # last.hyps) => err # "none"

\* the candidate a finished hypothesis was made from (its end token put back)
Candidate(h) == Append(h.sequence, End)

\* C5: stepping with next_search_beam_cnn only, no hypothesis of the beam and no
\* hypothesis of the finished list comes from a candidate with a repeated trigram.
C5_HardPolicyExcludesRepeats ==
    last.op = "next_search_beam_cnn" =>
        /\ \A i \in 1..Len(beam) : ~_has_repeat_tri(beam[i].sequence)
        /\ \A i \in 1..Len(finished) : ~_has_repeat_tri(Candidate(finished[i]))

\* a call of next_search_beam_cnn met a candidate with a repeated trigram and returned
C5_Witness ==
    /\ last.op = "next_search_beam_cnn" /\ err = "none"
    /\ last.demoted > 0
    /\ finished # <<>>

\* C6: the returned finished list is in non-increasing order of logprob/len.
C6_FinishedSortedByMean ==
    err = "none" =>
        \A i, j \in 1..Len(finished) : i < j => ~MeanLess(finished[i], finished[j])

\* next_search_beam returned a finished list holding a demoted hypothesis next to
\* others, in an order other than that of the pruning key
C6_Witness ==
    /\ last.op = "next_search_beam" /\ err = "none"
    /\ \E i, j \in 1..Len(finished) :
          /\ finished[i].logprob = Sentinel
          /\ finished[j].logprob > Sentinel
    /\ \E i, j \in 1..Len(finished) : i < j /\ WuLess(finished[i], finished[j])

\* C8: every sequence of the beam and of the finished list begins with the start
\* token, so best_sequence drops the start token only.
C8_SequencesBeginWithStart ==
    /\ \A i \in 1..Len(beam) : beam[i].sequence[1] = Start
    /\ \A i \in 1..Len(finished) : finished[i].sequence[1] = Start

\* C9: a step called without attention on well-formed input returns, and the
\* hypotheses it returns have an empty attention history.
C9_StepWithoutAttentionReturns ==
    (last.op \in StepOps /\ ~last.attn /\ last.rows = last.hyps) =>
        /\ err = "none"
        /\ \A i \in 1..Len(beam) : beam[i].attns = <<>>


(***************************************************************************)
(* extend_k on its own: one call on a parent and k candidates.             *)
(* Log-probabilities and diverse are in units of 0.1 here.                 *)
(***************************************************************************)
MaxK == 2
ExtendLogProbs == {-1, -5}
ExtendDiverses == {0, 10}
AttnRow == Tensor(1, <<1>>)

ExtendParents ==
    {Hypothesis(s, l, SingleState(1), a[1], a[2]) :
        s \in {<<Start>>, <<Start, 1>>}, l \in {0, -10},
        a \in {<<<<>>, None>>, <<<<AttnRow>>, AttnRow>>}}

ExtendInputs ==
    UNION {{[kind |-> "extend_k", self |-> h, topk |-> t, logprobs |-> l,
             hists |-> SingleState(1), attn |-> a, diverse |-> d] :
                h \in ExtendParents, d \in ExtendDiverses, a \in {None, AttnRow},
                t \in [1..k -> {5, 7}], l \in [1..k -> ExtendLogProbs]} : k \in 0..MaxK}

Quiet ==
    /\ beam = <<>>
    /\ finished = <<>>
    /\ beam_size \in BeamSizes
    /\ err = "none"
    /\ last = Idle
    /\ result = None

InitExtend ==
    /\ Quiet
    /\ arg \in ExtendInputs
    /\ ret = None

\* self is read only: the call assigns no attribute of it
ExtendK ==
    /\ arg.kind = "extend_k" /\ ret.kind = "none"
    /\ ret' = Tuple(extend_k(arg.self, arg.topk, arg.logprobs, arg.hists, arg.attn,
                             arg.diverse))
    /\ UNCHANGED <<beam, finished, beam_size, err, last, result, arg>>

NextExtend == ExtendK

SpecExtend == InitExtend /\ [][NextExtend]_vars

\* C10: extend_k returns one child per candidate, in candidate order; child i
\* (from 0) has the parent's sequence followed by token i and the logprob
\* parent.logprob + logprobs[i] - diverse * i.
C10_ExtendK ==
    (arg.kind = "extend_k" /\ ret.kind = "tuple") =>
        /\ Len(ret.items) = Len(arg.topk)
        /\ \A j \in 1..Len(ret.items) :
              /\ ret.items[j].sequence = Append(arg.self.sequence, arg.topk[j])
              /\ ret.items[j].logprob =
                    arg.self.logprob + arg.logprobs[j] - arg.diverse * (j - 1)

\* parent -1.0, tokens [5, 7], logprobs [-0.1, -0.5], diverse 1.0: children -1.1 and -2.5
C10_Witness ==
    /\ arg.kind = "extend_k" /\ ret.kind = "tuple"
    /\ arg.self.logprob = -10 /\ arg.topk = <<5, 7>> /\ arg.logprobs = <<-1, -5>>
    /\ arg.diverse = 10
    /\ ret.items[1].logprob = -11 /\ ret.items[2].logprob = -25

(***************************************************************************)
(* pack_beam followed by _unpack_topk on the packed states                 *)
(***************************************************************************)
\* states of l layers, in the composite and in the single-tensor convention; the
\* layers and the parts of one state hold different values
CompositeStates(l) ==
    {Tuple(<<Tensor(2, [n \in 1..l |-> <<v + n>>]), Tensor(2, [n \in 1..l |-> <<v + n + l>>]),
             Tensor(1, <<v>>)>>) : v \in StateVals}
SingleStates(l) == {Tensor(2, [n \in 1..l |-> <<v + n>>]) : v \in StateVals}

HypsOver(states) ==
    UNION {[1..n -> {Hypothesis(<<Start, t>>, 0, st, <<>>, None) : t \in Vocab, st \in states}] :
             n \in 1..MaxHyps}

PackInputs ==
    UNION {{[kind |-> "pack_beam", hyps |-> h, use_t5 |-> FALSE] : h \in HypsOver(CompositeStates(l))}
           \cup {[kind |-> "pack_beam", hyps |-> h, use_t5 |-> TRUE] : h \in HypsOver(SingleStates(l))} :
             l \in 1..MaxLayers}

InitPack ==
    /\ Quiet
    /\ arg \in PackInputs
    /\ ret = None

PackBeam ==
    /\ arg.kind = "pack_beam" /\ ret.kind = "none"
    /\ ret' = [kind |-> "packed", packed |-> pack_beam(arg.hyps, arg.use_t5)]
    /\ UNCHANGED <<beam, finished, beam_size, err, last, result, arg>>

\* the packed states go to _unpack_topk as they are, with one top-k row per hypothesis
UnpackTopk ==
    /\ ret.kind = "packed" /\ ~IsErr(ret.packed)
    /\ LET rows == [i \in 1..Len(arg.hyps) |-> <<ret.packed.items[1][i]>>]
       IN  ret' = [kind |-> "unpacked", packed |-> ret.packed,
                   out |-> _unpack_topk(rows, rows, ret.packed.items[2], None)]
    /\ UNCHANGED <<beam, finished, beam_size, err, last, result, arg>>

NextPack == PackBeam \/ UnpackTopk

SpecPack == InitPack /\ [][NextPack]_vars

\* C7: _unpack_topk applied to the states packed by pack_beam gives back the
\* state of every hypothesis, and the packed token of a hypothesis is its last
\* token, in the composite convention and for a single tensor of any depth.
C7_PackUnpackRoundTrip ==
    ret.kind = "unpacked" =>
        /\ ~IsErr(ret.out)
        /\ \A i \in 1..Len(arg.hyps) :
              /\ ret.out.items[3][i] = arg.hyps[i].hists
              /\ ret.packed.items[1][i] = LastTok(arg.hyps[i])


(***************************************************************************)
(* _has_repeat_tri on its own                                              *)
(***************************************************************************)
MaxGrams == 6
GramTokens == {1, 2, 3}

GramInputs ==
    UNION {{[kind |-> "_has_repeat_tri", grams |-> g] : g \in [1..n -> GramTokens]} :
             n \in 0..MaxGrams}

InitTri ==
    /\ Quiet
    /\ arg \in GramInputs
    /\ ret = None

HasRepeatTri ==
    /\ arg.kind = "_has_repeat_tri" /\ ret.kind = "none"
    /\ ret' = [kind |-> "bool", value |-> _has_repeat_tri(arg.grams)]
    /\ UNCHANGED <<beam, finished, beam_size, err, last, result, arg>>

NextTri == HasRepeatTri

SpecTri == InitTri /\ [][NextTri]_vars

\* the three tokens of s from position i on are those from position j on
SameTriAt(s, i, j) == s[i] = s[j] /\ s[i+1] = s[j+1] /\ s[i+2] = s[j+2]

\* C11: _has_repeat_tri(s) is True exactly when some three consecutive tokens of
\* s occur at two or more positions of s; it is False for every s shorter than 4
\* tokens, False for [1,2,3,2,3] and True for [1,2,3,1,2,3].
C11_HasRepeatTri ==
    (arg.kind = "_has_repeat_tri" /\ ret.kind = "bool") =>
        /\ ret.value <=> (\E i, j \in 1..(Len(arg.grams) - 2) :
                              i < j /\ SameTriAt(arg.grams, i, j))
        /\ Len(arg.grams) < 4 => ~ret.value
        /\ arg.grams = <<1, 2, 3, 2, 3>> => ~ret.value
        /\ arg.grams = <<1, 2, 3, 1, 2, 3>> => ret.value

\* the call on [1,2,3,1,2,3] returned True
C11_Witness ==
    /\ arg.kind = "_has_repeat_tri" /\ ret.kind = "bool"
    /\ arg.grams = <<1, 2, 3, 1, 2, 3>>
    /\ ret.value

(***************************************************************************)
(* Order of the beam returned under the soft repetition policy             *)
(***************************************************************************)
\* C12: in every beam returned by next_search_beam the first entry has the
\* highest key logprob / length_wu(len(sequence), 0.9) of the beam, the keys
\* taken from the logprob values the hypotheses carry on return: a demoted
\* candidate never stands ahead of one that was not demoted.
C12_SoftBeamHeadIsBest ==
    (last.op = "next_search_beam" /\ err = "none") =>
        \A i \in 1..Len(beam) : ~WuLess(beam[1], beam[i])

====
